---- MODULE Spec2Model ----
(***************************************************************************)
(* Gaze-tracking input pipeline of healthmate:                             *)
(*   - OnScreenKeyboard dwell selection (components/patient/               *)
(*     OnScreenKeyboard.tsx),                                              *)
(*   - useGazeTracking: transport, camera, tracking loop and calibration   *)
(*     (unnamed/part_004),                                                 *)
(*   - useFallDetectionStream: video stream reconnector (unnamed/part_008).*)
(* Each component has its own specification; the variables of the other    *)
(* components stay at their initial values.                                *)
(***************************************************************************)
EXTENDS Integers, Sequences, FiniteSets, TLC

\* null / undefined
None == "none"
\* null where a timestamp or a duration is expected
NoTime == 0 - 1

Min(a, b) == IF a <= b THEN a ELSE b

(***************************************************************************)
(* State                                                                   *)
(***************************************************************************)
\* OnScreenKeyboard
VARIABLES
  gazeEnabled,        \* prop gazeEnabled
  gazeDataProp,       \* prop gazeData: [isNull, success, x, y]
  dwellTime,          \* prop dwellTime
  shiftActive,        \* useState shiftActive
  dwellProgress,      \* useState dwellProgress
  gazeKey,            \* useState gazeKey
  dwellTimerRef,      \* "null" or "id" (the id of the last request)
  dwellStartTimeRef,  \* NoTime or a timestamp
  lastGazeKeyRef,     \* None or a key label
  rafCallbacks,       \* pending requestAnimationFrame callbacks [key, cur]
  inputChanged,       \* currentInput changed: handleKeyClick has a new identity
  now,                \* Date.now()
  \* history (observation only)
  histKey,            \* key under the previous processed sample
  keyChanged,         \* the last step processed a sample whose key differs
  holdSince,          \* start of the current continuous hold on one key
  holdSel,            \* dwell selections fired during the current hold
  holdFrameFull,      \* an animation frame ran in this hold at >= dwellTime
  fired,              \* the last step fired a dwell selection
  firedHeld,          \* how long the key had been held when it was selected
  framesAfterSel,     \* animation frames / samples processed after a selection
  abortedDue,         \* due time of a dwell that was cleared by gaze loss
  prevHeld,           \* time the previous key had been held when the key changed
  lastSelTime         \* time of the last dwell selection, NoTime before the first

dwellVars == << gazeEnabled, gazeDataProp, dwellTime, shiftActive,
                dwellProgress, gazeKey, dwellTimerRef, dwellStartTimeRef,
                lastGazeKeyRef, rafCallbacks, inputChanged, now, histKey,
                keyChanged, holdSince, holdSel, holdFrameFull, fired,
                firedHeld, framesAfterSel, abortedDue, prevHeld, lastSelTime >>

\* useGazeTracking
VARIABLES
  mounted,              \* the component using the hook is mounted
  sockets,              \* readyState of each WebSocket the hook created
  wsRef,                \* wsRef.current: 0 (null) or a socket
  isConnected,
  isConnecting,
  connectionError,      \* None or the error string
  isTracking,
  gazeData,             \* "null", "ok" (success) or "fail"
  trackingIntervalRef,  \* TRUE: holds the id of a running interval
  strayIntervals,       \* running intervals whose id is no longer in the ref
  pendingCamera,        \* getUserMedia calls in flight
  streamRef,            \* TRUE: holds a stream whose tracks are live
  orphanStreams,        \* live streams no longer held in streamRef
  videoSrc,             \* TRUE: videoRef.current.srcObject is a live stream
  isCameraActive,
  cameraError,
  calibrationStatus,
  calibrationSamplesRef,
  \* history (observation only)
  trackStopped,         \* stopped, and startTracking has not started a loop since
  sentFrame,            \* the last step sent a 'track' frame
  sentReset,            \* the last step sent {action: 'reset_calibration'}
  settled,              \* how the last step settled a connect() promise, or None
  lastEvent,            \* what the last step of the hook was
  scAccepted,           \* accepted samples of the in-order scenario, or NoTime
  recal,                \* progress of a recalibration after a completed one
  dropped,              \* a connection that had opened closed since the last connect()
  disconnected          \* disconnect() ran since the last connect()

gazeVars == << mounted, sockets, wsRef, isConnected, isConnecting, connectionError,
               isTracking, gazeData, trackingIntervalRef, strayIntervals,
               pendingCamera, streamRef, orphanStreams, videoSrc, isCameraActive,
               cameraError, calibrationStatus, calibrationSamplesRef,
               trackStopped, sentFrame, sentReset, settled, lastEvent,
               scAccepted, recal, dropped, disconnected >>

connVars  == << sockets, wsRef, isConnected, isConnecting, connectionError >>

trackVars == << isTracking, gazeData, trackingIntervalRef, strayIntervals >>

camVars   == << pendingCamera, streamRef, orphanStreams, videoSrc, isCameraActive,
                cameraError >>

calVars   == << calibrationStatus, calibrationSamplesRef >>

connHist  == << dropped, disconnected >>

\* useFallDetectionStream
VARIABLES
  streamMounted,        \* the component using the hook is mounted
  streamIsConnected,    \* the hook's isConnected
  streamError,          \* the hook's error: None or the error string
  reconnectAttempt,     \* the state counter
  reconnectTimeoutRef,  \* the pending retry timer, if any
  probes,               \* the probe images whose load is in flight
  imageRef,             \* imageRef.current: 0 or a probe in flight
  clock,                \* ms since mount
  \* history (observation only)
  autoOnly,             \* every probe so far failed and nothing but retries ran
  retries,              \* retry timers fired since mount
  lastGap,              \* ms between the last failure and the probe after it
  streamEvent           \* what the last step of the hook was

videoVars == << streamMounted, streamIsConnected, streamError, reconnectAttempt,
                reconnectTimeoutRef, probes, imageRef, clock, autoOnly, retries,
                lastGap, streamEvent >>

\* getReconnectDelay
VARIABLES
  attemptArg,   \* the argument of the last call
  delayOut,     \* its result
  prevArg,      \* the argument of the call before
  prevOut       \* its result

delayVars == << attemptArg, delayOut, prevArg, prevOut >>

\* all variables, and all but one component's
vars == << dwellVars, gazeVars, videoVars, delayVars >>
nonDwellVars == << gazeVars, videoVars, delayVars >>
nonGazeVars  == << dwellVars, videoVars, delayVars >>
nonVideoVars == << dwellVars, gazeVars, delayVars >>
nonDelayVars == << dwellVars, gazeVars, videoVars >>

(***************************************************************************)
(* OnScreenKeyboard: dwell selection                                       *)
(***************************************************************************)
DEFAULT_DWELL_TIME == 800
\* the cooldown added to Date.now() after a selection
DwellCooldown == 200
padding == 5

\* dwell times the parent's slider can pass (400..1500); the default is 800
DwellTimes == {400, DEFAULT_DWELL_TIME}
\* the clock advances in steps of the cooldown
TimeStep == DwellCooldown
MaxTime == 1400
\* frames / samples counted after a selection
MaxFramesAfterSel == 2

\* window.innerWidth / innerHeight and the key buttons' bounding rects
Viewport == [innerWidth |-> 40, innerHeight |-> 40]
keyRefs == << [slot |-> 1, left |-> 2,  right |-> 12, top |-> 18, bottom |-> 22],
              [slot |-> 2, left |-> 14, right |-> 24, top |-> 18, bottom |-> 22],
              [slot |-> 3, left |-> 26, right |-> 36, top |-> 18, bottom |-> 22] >>

\* the label rendered in a slot: the layout depends on shiftActive
KeyLabel(slot, shift) ==
  CASE slot = 1 -> IF shift THEN "Q" ELSE "q"
    [] slot = 2 -> IF shift THEN "W" ELSE "w"
    [] OTHER    -> "Shift"

Keys == {KeyLabel(s, sh) : s \in 1..3, sh \in BOOLEAN}

\* normalized gaze coordinates, in hundredths
GazeXs == {25, 50, 75}
GazeYs == {50}
GazeSamples ==
  [isNull : {FALSE}, success : {TRUE}, x : GazeXs, y : GazeYs]
    \cup {[isNull |-> FALSE, success |-> TRUE, x |-> 50, y |-> 0]}
    \cup {[isNull |-> FALSE, success |-> FALSE, x |-> 0, y |-> 0]}
\* gazeData = null
NoGazeData == [isNull |-> TRUE, success |-> FALSE, x |-> 0, y |-> 0]

\* JS truthiness of a number-or-null
Truthy(v) == v # NoTime /\ v # 0

\* findGazedKey: the first key whose padded rect contains the gaze point
findGazedKey(gazeX, gazeY, shift) ==
  LET screenX == (gazeX * Viewport.innerWidth) \div 100
      screenY == (gazeY * Viewport.innerHeight) \div 100
      hit(i) == /\ screenX >= keyRefs[i].left - padding
                /\ screenX <= keyRefs[i].right + padding
                /\ screenY >= keyRefs[i].top - padding
                /\ screenY <= keyRefs[i].bottom + padding
      hits == {i \in 1..Len(keyRefs) : hit(i)}
  IN IF hits = {} THEN None
     ELSE KeyLabel(keyRefs[CHOOSE i \in hits : \A j \in hits : i <= j].slot, shift)

GazeOK(en, gd) == en /\ ~gd.isNull /\ gd.success

\* cancelAnimationFrame(dwellTimerRef.current)
CancelRef(cbs) == {cb \in cbs : ~cb.cur}
\* dwellTimerRef.current = requestAnimationFrame(updateDwell)
Request(cbs, key) == {[cb EXCEPT !.cur = FALSE] : cb \in cbs} \cup {[key |-> key, cur |-> TRUE]}

\* the cleanup returned by the previous run of the dwell effect; it exists only
\* when that run got past the guard
DwellCleanup ==
  IF GazeOK(gazeEnabled, gazeDataProp) /\ dwellTimerRef # "null"
  THEN CancelRef(rafCallbacks) ELSE rafCallbacks

\* C2 mutant: the guard tests only the sample, not gazeEnabled
useDwellEffect_NoEnabledGuard(en, gd) ==
  LET cbs0 == DwellCleanup IN
  IF ~(~gd.isNull /\ gd.success)
  THEN [gazeKey |-> None, dwellProgress |-> 0, timer |-> "null",
        start |-> NoTime, last |-> None,
        cbs |-> IF dwellTimerRef # "null" THEN CancelRef(cbs0) ELSE cbs0]
  ELSE
    LET k       == findGazedKey(gd.x, gd.y, shiftActive)
        changed == k # lastGazeKeyRef
        start1  == IF changed THEN (IF k # None THEN now ELSE NoTime) ELSE dwellStartTimeRef
        cbs1    == IF changed /\ dwellTimerRef # "null" THEN CancelRef(cbs0) ELSE cbs0
        timer1  == IF changed THEN "null" ELSE dwellTimerRef
        go      == k # None /\ Truthy(start1)
    IN [gazeKey |-> k,
        dwellProgress |-> IF changed THEN 0 ELSE dwellProgress,
        timer |-> IF go THEN "id" ELSE timer1,
        start |-> start1,
        last |-> k,
        cbs |-> IF go THEN Request(cbs1, k) ELSE cbs1]

\* C3 mutant: moving from one key to another keeps the running dwell start
useDwellEffect_KeepStart(en, gd) ==
  LET cbs0 == DwellCleanup IN
  IF ~GazeOK(en, gd)
  THEN [gazeKey |-> None, dwellProgress |-> 0, timer |-> "null",
        start |-> NoTime, last |-> None,
        cbs |-> IF dwellTimerRef # "null" THEN CancelRef(cbs0) ELSE cbs0]
  ELSE
    LET k       == findGazedKey(gd.x, gd.y, shiftActive)
        changed == k # lastGazeKeyRef
        start1  == IF changed
                   THEN (IF k = None THEN NoTime
                         ELSE IF dwellStartTimeRef # NoTime THEN dwellStartTimeRef ELSE now)
                   ELSE dwellStartTimeRef
        cbs1    == IF changed /\ dwellTimerRef # "null" THEN CancelRef(cbs0) ELSE cbs0
        timer1  == IF changed THEN "null" ELSE dwellTimerRef
        go      == k # None /\ Truthy(start1)
    IN [gazeKey |-> k,
        dwellProgress |-> IF changed THEN 0 ELSE dwellProgress,
        timer |-> IF go THEN "id" ELSE timer1,
        start |-> start1,
        last |-> k,
        cbs |-> IF go THEN Request(cbs1, k) ELSE cbs1]

\* the dwell effect (cleanup of the previous run, then the body) under the
\* props en, gd: the new values of the state and refs it writes
useDwellEffect(en, gd) ==
  LET cbs0 == DwellCleanup IN
  IF ~GazeOK(en, gd)
  THEN \* reset when gaze tracking is disabled or lost
       [gazeKey |-> None, dwellProgress |-> 0, timer |-> "null",
        start |-> NoTime, last |-> None,
        cbs |-> IF dwellTimerRef # "null" THEN CancelRef(cbs0) ELSE cbs0]
  ELSE
    LET k       == findGazedKey(gd.x, gd.y, shiftActive)
        changed == k # lastGazeKeyRef
        start1  == IF changed THEN (IF k # None THEN now ELSE NoTime) ELSE dwellStartTimeRef
        cbs1    == IF changed /\ dwellTimerRef # "null" THEN CancelRef(cbs0) ELSE cbs0
        timer1  == IF changed THEN "null" ELSE dwellTimerRef
        go      == k # None /\ Truthy(start1)
    IN [gazeKey |-> k,
        dwellProgress |-> IF changed THEN 0 ELSE dwellProgress,
        timer |-> IF go THEN "id" ELSE timer1,
        start |-> start1,
        last |-> k,
        cbs |-> IF go THEN Request(cbs1, k) ELSE cbs1]

\* C1 mutant: the dwell start is not pushed past the cooldown after a selection
updateDwell_NoRestart(cb) ==
  LET cbs0 == rafCallbacks \ {cb} IN
  IF ~Truthy(dwellStartTimeRef) \/ lastGazeKeyRef # cb.key
  THEN [dwellProgress |-> dwellProgress, start |-> dwellStartTimeRef,
        timer |-> dwellTimerRef, cbs |-> cbs0, fire |-> FALSE]
  ELSE
    LET elapsed  == now - dwellStartTimeRef
        progress == Min(100, (elapsed * 100) \div dwellTime)
    IN IF progress >= 100
       THEN [dwellProgress |-> 0, start |-> dwellStartTimeRef,
             timer |-> dwellTimerRef, cbs |-> cbs0, fire |-> TRUE]
       ELSE [dwellProgress |-> progress, start |-> dwellStartTimeRef,
             timer |-> "id", cbs |-> Request(cbs0, cb.key), fire |-> FALSE]

\* updateDwell, the animation-frame callback cb of the dwell effect
updateDwell(cb) ==
  LET cbs0 == rafCallbacks \ {cb} IN
  IF ~Truthy(dwellStartTimeRef) \/ lastGazeKeyRef # cb.key
  THEN [dwellProgress |-> dwellProgress, start |-> dwellStartTimeRef,
        timer |-> dwellTimerRef, cbs |-> cbs0, fire |-> FALSE]
  ELSE
    LET elapsed  == now - dwellStartTimeRef
        progress == Min(100, (elapsed * 100) \div dwellTime)
    IN IF progress >= 100
       THEN \* handleKeyClick(currentGazedKey); cooldown; setDwellProgress(0)
            [dwellProgress |-> 0, start |-> now + DwellCooldown,
             timer |-> dwellTimerRef, cbs |-> cbs0, fire |-> TRUE]
       ELSE [dwellProgress |-> progress, start |-> dwellStartTimeRef,
             timer |-> "id", cbs |-> Request(cbs0, cb.key), fire |-> FALSE]

\* handleKeyClick(key): Shift toggles the layout; any other key changes
\* currentInput through onKeyPress, which gives handleKeyClick a new identity
handleKeyClick(key) ==
  IF key = "Shift"
  THEN [shiftActive |-> ~shiftActive, inputChanged |-> inputChanged]
  ELSE [shiftActive |-> shiftActive, inputChanged |-> TRUE]

\* one run of the dwell effect under the props en, gd, with its observation
RunDwellEffect(en, gd) ==
  LET e      == useDwellEffect(en, gd)
      newKey == IF GazeOK(en, gd) THEN findGazedKey(gd.x, gd.y, shiftActive) ELSE None
      same   == newKey # None /\ newKey = histKey
      midDwell == /\ GazeOK(gazeEnabled, gazeDataProp)
                  /\ dwellStartTimeRef # NoTime
                  /\ dwellStartTimeRef < now
                  /\ now < dwellStartTimeRef + dwellTime
                  /\ \E cb \in rafCallbacks : cb.cur
  IN /\ gazeKey' = e.gazeKey
     /\ dwellProgress' = e.dwellProgress
     /\ dwellTimerRef' = e.timer
     /\ dwellStartTimeRef' = e.start
     /\ lastGazeKeyRef' = e.last
     /\ rafCallbacks' = e.cbs
     /\ inputChanged' = FALSE
     /\ histKey' = newKey
     /\ keyChanged' = (newKey # histKey)
     /\ holdSince' = IF newKey = None THEN NoTime ELSE IF same THEN holdSince ELSE now
     /\ holdSel' = IF same THEN holdSel ELSE 0
     /\ holdFrameFull' = IF same THEN holdFrameFull ELSE FALSE
     /\ framesAfterSel' = IF same
                          THEN (IF holdSel > 0 THEN Min(framesAfterSel + 1, MaxFramesAfterSel)
                                ELSE framesAfterSel)
                          ELSE 0
     /\ fired' = FALSE
     /\ firedHeld' = firedHeld
     /\ lastSelTime' = lastSelTime
     /\ prevHeld' = IF newKey # histKey /\ holdSince # NoTime THEN now - holdSince ELSE 0
     /\ abortedDue' = IF GazeOK(en, gd) THEN NoTime
                      ELSE IF midDwell THEN dwellStartTimeRef + dwellTime
                      ELSE abortedDue

\* a new gaze sample (or null, after stopTracking) is passed down as gazeData
GazeSampleArrives ==
  \E gd \in GazeSamples \cup {NoGazeData} :
    /\ ~gd.isNull \/ ~gazeDataProp.isNull
    /\ gazeDataProp' = gd
    /\ RunDwellEffect(gazeEnabled, gd)
    /\ UNCHANGED << gazeEnabled, dwellTime, shiftActive, now >>
    /\ UNCHANGED nonDwellVars

\* the parent toggles gazeEnabled (gazeTrackingEnabled && isTracking)
SetGazeEnabled ==
  /\ gazeEnabled' = ~gazeEnabled
  /\ RunDwellEffect(~gazeEnabled, gazeDataProp)
  /\ UNCHANGED << gazeDataProp, dwellTime, shiftActive, now >>
  /\ UNCHANGED nonDwellVars

\* the re-render after currentInput changed: handleKeyClick is a new function,
\* so the dwell effect runs again with the same props
RerenderAfterInput ==
  /\ inputChanged
  /\ RunDwellEffect(gazeEnabled, gazeDataProp)
  /\ UNCHANGED << gazeEnabled, gazeDataProp, dwellTime, shiftActive, now >>
  /\ UNCHANGED nonDwellVars

\* the browser runs a pending animation-frame callback
AnimationFrame ==
  \E cb \in rafCallbacks :
    LET u    == updateDwell(cb)
        h    == IF u.fire THEN handleKeyClick(cb.key)
                ELSE [shiftActive |-> shiftActive, inputChanged |-> inputChanged]
        ran  == Truthy(dwellStartTimeRef) /\ lastGazeKeyRef = cb.key
    IN /\ dwellProgress' = u.dwellProgress
       /\ dwellStartTimeRef' = u.start
       /\ dwellTimerRef' = u.timer
       /\ rafCallbacks' = u.cbs
       /\ shiftActive' = h.shiftActive
       /\ inputChanged' = h.inputChanged
       /\ fired' = u.fire
       /\ holdSel' = IF u.fire THEN holdSel + 1 ELSE holdSel
       /\ firedHeld' = IF u.fire /\ holdSince # NoTime THEN now - holdSince ELSE firedHeld
       /\ lastSelTime' = IF u.fire THEN now ELSE lastSelTime
       /\ holdFrameFull' = (holdFrameFull \/
                             (ran /\ holdSince # NoTime /\ now - holdSince >= dwellTime))
       /\ framesAfterSel' = IF holdSel > 0 THEN Min(framesAfterSel + 1, MaxFramesAfterSel)
                            ELSE framesAfterSel
       /\ keyChanged' = FALSE
       /\ UNCHANGED << gazeEnabled, gazeDataProp, dwellTime, gazeKey,
                       lastGazeKeyRef, now, histKey, holdSince, abortedDue, prevHeld >>
       /\ UNCHANGED nonDwellVars

\* a mouse click on a key button: onClick={() => handleKeyClick(key)}
ManualClick ==
  \E slot \in 1..Len(keyRefs) :
    LET h == handleKeyClick(KeyLabel(slot, shiftActive))
    IN /\ shiftActive' = h.shiftActive
       /\ inputChanged' = h.inputChanged
       /\ fired' = FALSE
       /\ keyChanged' = FALSE
       /\ UNCHANGED << gazeEnabled, gazeDataProp, dwellTime, dwellProgress, gazeKey,
                       dwellTimerRef, dwellStartTimeRef, lastGazeKeyRef, rafCallbacks,
                       now, histKey, holdSince, holdSel, holdFrameFull, firedHeld,
                       framesAfterSel, abortedDue, prevHeld, lastSelTime >>
       /\ UNCHANGED nonDwellVars

\* time passes
DwellTick ==
  /\ now + TimeStep <= MaxTime
  /\ now' = now + TimeStep
  /\ fired' = FALSE
  /\ keyChanged' = FALSE
  /\ UNCHANGED << gazeEnabled, gazeDataProp, dwellTime, shiftActive, dwellProgress,
                  gazeKey, dwellTimerRef, dwellStartTimeRef, lastGazeKeyRef,
                  rafCallbacks, inputChanged, histKey, holdSince, holdSel,
                  holdFrameFull, firedHeld, framesAfterSel, abortedDue, prevHeld,
                  lastSelTime >>
  /\ UNCHANGED nonDwellVars

\* the keyboard after mount: the dwell effect has run once with gaze disabled
DwellInitAt(dt) ==
  /\ gazeEnabled = FALSE
  /\ gazeDataProp = NoGazeData
  /\ dwellTime = dt
  /\ shiftActive = FALSE
  /\ dwellProgress = 0
  /\ gazeKey = None
  /\ dwellTimerRef = "null"
  /\ dwellStartTimeRef = NoTime
  /\ lastGazeKeyRef = None
  /\ rafCallbacks = {}
  /\ inputChanged = FALSE
  /\ now = TimeStep
  /\ histKey = None
  /\ keyChanged = FALSE
  /\ holdSince = NoTime
  /\ holdSel = 0
  /\ holdFrameFull = FALSE
  /\ fired = FALSE
  /\ firedHeld = NoTime
  /\ lastSelTime = NoTime
  /\ framesAfterSel = 0
  /\ abortedDue = NoTime
  /\ prevHeld = 0

DwellNext ==
  \/ GazeSampleArrives
  \/ SetGazeEnabled
  \/ RerenderAfterInput
  \/ AnimationFrame
  \/ ManualClick
  \/ DwellTick

(***************************************************************************)
(* useGazeTracking: transport, camera, tracking loop, calibration          *)
(***************************************************************************)
DEFAULT_SAMPLES_PER_POINT == 10
\* the caller passes no samplesPerCalibrationPoint
samplesPerCalibrationPoint == DEFAULT_SAMPLES_PER_POINT

\* the 9-point grid, coordinates in tenths
DEFAULT_CALIBRATION_POINTS ==
  << [x |-> 1, y |-> 1], [x |-> 5, y |-> 1], [x |-> 9, y |-> 1],
     [x |-> 1, y |-> 5], [x |-> 5, y |-> 5], [x |-> 9, y |-> 5],
     [x |-> 1, y |-> 9], [x |-> 5, y |-> 9], [x |-> 9, y |-> 9] >>
\* currentPoint = null
NullPoint == [x |-> 0, y |-> 0]
\* DEFAULT_CALIBRATION_POINTS[i], 0-based as in the source
PointAt(i) == DEFAULT_CALIBRATION_POINTS[i + 1]

MaxSockets == 2
MaxStrayIntervals == 1
MaxPendingCamera == 1
MaxOrphanStreams == 1
\* the largest samples_collected a calibration_response reports
MaxReported == 11

SocketIds == 1..MaxSockets

InitialCalibrationStatus ==
  [isCalibrating |-> FALSE, currentPoint |-> NullPoint, pointIndex |-> 0,
   totalPoints |-> Len(DEFAULT_CALIBRATION_POINTS), samplesCollected |-> 0,
   samplesPerPoint |-> samplesPerCalibrationPoint, isCalibrated |-> FALSE]

\* wsRef.current && wsRef.current.readyState === WebSocket.OPEN
WsOpen == wsRef # 0 /\ sockets[wsRef] = "open"

\* a state setter called with v: a no-op once the component is unmounted
SetState(v, old) == IF mounted THEN v ELSE old

\* captureFrame() can return a frame: the video element is mounted and shows
\* a stream
CanCapture == mounted /\ videoSrc

(* ------------------------------ transport ------------------------------ *)

\* C10 mutant: onopen does not clear isConnecting
wsOnOpen_KeepConnecting(ws) ==
  [isConnected |-> TRUE, isConnecting |-> isConnecting, connectionError |-> None,
   wsRef |-> ws]

\* ws.onopen
wsOnOpen(ws) ==
  [isConnected |-> TRUE, isConnecting |-> FALSE, connectionError |-> None,
   wsRef |-> ws]

\* connect(): no-op when the socket in wsRef is open; else a new WebSocket
Connect ==
  /\ mounted
  /\ lastEvent' = "connect"
  /\ sentFrame' = FALSE
  /\ sentReset' = FALSE
  /\ settled' = IF WsOpen THEN "resolved" ELSE None
  /\ IF WsOpen
     THEN UNCHANGED connVars
     ELSE \E ws \in SocketIds :
            /\ sockets[ws] = "free"
            /\ \A o \in SocketIds : sockets[o] = "free" => ws <= o
            /\ sockets' = [sockets EXCEPT ![ws] = "connecting"]
            /\ isConnecting' = TRUE
            /\ connectionError' = None
            /\ UNCHANGED << wsRef, isConnected >>
  /\ UNCHANGED << mounted, trackVars, camVars, calVars, trackStopped, scAccepted, recal >>
  /\ dropped' = FALSE
  /\ disconnected' = FALSE
  /\ UNCHANGED nonGazeVars

\* connect() when new WebSocket(wsUrl) throws: the catch branch
ConnectThrows ==
  /\ mounted
  /\ ~WsOpen
  /\ lastEvent' = "connect"
  /\ sentFrame' = FALSE
  /\ sentReset' = FALSE
  /\ settled' = "rejected"
  /\ connectionError' = "Failed to create WebSocket connection"
  /\ isConnecting' = FALSE
  /\ UNCHANGED << mounted, sockets, wsRef, isConnected, trackVars, camVars, calVars,
                  trackStopped, scAccepted, recal >>
  /\ dropped' = FALSE
  /\ disconnected' = FALSE
  /\ UNCHANGED nonGazeVars

\* the socket opens: ws.onopen
SocketOpen ==
  \E ws \in SocketIds :
    /\ sockets[ws] = "connecting"
    /\ sockets' = [sockets EXCEPT ![ws] = "open"]
    /\ LET o == wsOnOpen(ws)
       IN /\ isConnected' = SetState(o.isConnected, isConnected)
          /\ isConnecting' = SetState(o.isConnecting, isConnecting)
          /\ connectionError' = SetState(o.connectionError, connectionError)
          /\ wsRef' = o.wsRef
    /\ lastEvent' = "open"
    /\ sentFrame' = FALSE
    /\ sentReset' = FALSE
    /\ settled' = "resolved"
    /\ UNCHANGED << mounted, trackVars, camVars, calVars, trackStopped, scAccepted,
                    recal, connHist >>
    /\ UNCHANGED nonGazeVars

\* C20 mutant: onerror leaves isConnecting as it is
SocketError_KeepConnecting ==
  \E ws \in SocketIds :
    /\ sockets[ws] \in {"connecting", "open", "closing"}
    /\ sockets' = [sockets EXCEPT ![ws] = "free"]
    /\ connectionError' = SetState("Failed to connect to gaze tracking server",
                                   connectionError)
    /\ isConnected' = SetState(FALSE, isConnected)
    /\ isTracking' = SetState(FALSE, isTracking)
    /\ wsRef' = 0
    /\ lastEvent' = "error"
    /\ sentFrame' = FALSE
    /\ sentReset' = FALSE
    /\ settled' = IF sockets[ws] = "connecting" THEN "rejected" ELSE None
    /\ UNCHANGED << mounted, isConnecting, gazeData, trackingIntervalRef,
                    strayIntervals, camVars, calVars, trackStopped, scAccepted, recal >>
    /\ dropped' = (dropped \/ sockets[ws] # "connecting")
    /\ UNCHANGED disconnected
    /\ UNCHANGED nonGazeVars

\* the socket fails (before or after it opened): ws.onerror, then ws.onclose
SocketError ==
  \E ws \in SocketIds :
    /\ sockets[ws] \in {"connecting", "open", "closing"}
    /\ sockets' = [sockets EXCEPT ![ws] = "free"]
    /\ connectionError' = SetState("Failed to connect to gaze tracking server",
                                   connectionError)
    /\ isConnecting' = SetState(FALSE, isConnecting)
    /\ isConnected' = SetState(FALSE, isConnected)
    /\ isTracking' = SetState(FALSE, isTracking)
    /\ wsRef' = 0
    /\ lastEvent' = "error"
    /\ sentFrame' = FALSE
    /\ sentReset' = FALSE
    /\ settled' = IF sockets[ws] = "connecting" THEN "rejected" ELSE None
    /\ UNCHANGED << mounted, gazeData, trackingIntervalRef, strayIntervals, camVars,
                    calVars, trackStopped, scAccepted, recal >>
    /\ dropped' = (dropped \/ sockets[ws] # "connecting")
    /\ UNCHANGED disconnected
    /\ UNCHANGED nonGazeVars

\* the closing handshake starts on the server's side: readyState becomes
\* CLOSING, no handler runs until the close event
SocketClosing ==
  \E ws \in SocketIds :
    /\ sockets[ws] = "open"
    /\ sockets' = [sockets EXCEPT ![ws] = "closing"]
    /\ lastEvent' = "closing"
    /\ sentFrame' = FALSE
    /\ sentReset' = FALSE
    /\ settled' = None
    /\ UNCHANGED << mounted, wsRef, isConnected, isConnecting, connectionError,
                    trackVars, camVars, calVars, trackStopped, scAccepted, recal, connHist >>
    /\ UNCHANGED nonGazeVars

\* the socket closes (by the server, or after close()): ws.onclose
SocketClose ==
  \E ws \in SocketIds :
    /\ sockets[ws] \in {"open", "closing"}
    /\ sockets' = [sockets EXCEPT ![ws] = "free"]
    /\ isConnected' = SetState(FALSE, isConnected)
    /\ isTracking' = SetState(FALSE, isTracking)
    /\ wsRef' = 0
    /\ lastEvent' = "close"
    /\ sentFrame' = FALSE
    /\ sentReset' = FALSE
    /\ settled' = None
    /\ UNCHANGED << mounted, isConnecting, connectionError, gazeData,
                    trackingIntervalRef, strayIntervals, camVars, calVars,
                    trackStopped, scAccepted, recal >>
    /\ dropped' = TRUE
    /\ UNCHANGED disconnected
    /\ UNCHANGED nonGazeVars

\* the state disconnect() leaves: the interval in the ref is cleared, the
\* socket in the ref is closed
disconnectSockets == IF wsRef # 0 THEN [sockets EXCEPT ![wsRef] = "closing"] ELSE sockets

\* disconnect()
Disconnect ==
  /\ mounted
  /\ trackingIntervalRef' = FALSE
  /\ sockets' = disconnectSockets
  /\ wsRef' = 0
  /\ isConnected' = FALSE
  /\ isTracking' = FALSE
  /\ trackStopped' = TRUE
  /\ lastEvent' = "disconnect"
  /\ sentFrame' = FALSE
  /\ sentReset' = FALSE
  /\ settled' = None
  /\ UNCHANGED << mounted, isConnecting, connectionError, gazeData, strayIntervals,
                  camVars, calVars, scAccepted, recal >>
  /\ disconnected' = TRUE
  /\ UNCHANGED dropped
  /\ UNCHANGED nonGazeVars

(* ------------------------------- camera -------------------------------- *)

\* startCamera() up to its await of getUserMedia
StartCamera ==
  /\ mounted
  /\ pendingCamera < MaxPendingCamera
  /\ pendingCamera' = pendingCamera + 1
  /\ cameraError' = None
  /\ lastEvent' = "startCamera"
  /\ sentFrame' = FALSE
  /\ sentReset' = FALSE
  /\ settled' = None
  /\ UNCHANGED << mounted, connVars, trackVars, streamRef, orphanStreams, videoSrc,
                  isCameraActive, calVars, trackStopped, scAccepted, recal, connHist >>
  /\ UNCHANGED nonGazeVars

\* getUserMedia resolves and play() succeeds: the stream replaces the one in
\* streamRef, whose tracks keep running
CameraAcquired ==
  /\ pendingCamera > 0
  /\ streamRef => orphanStreams < MaxOrphanStreams
  /\ pendingCamera' = pendingCamera - 1
  /\ orphanStreams' = IF streamRef THEN orphanStreams + 1 ELSE orphanStreams
  /\ streamRef' = TRUE
  /\ videoSrc' = mounted
  /\ isCameraActive' = SetState(TRUE, isCameraActive)
  /\ lastEvent' = "cameraAcquired"
  /\ sentFrame' = FALSE
  /\ sentReset' = FALSE
  /\ settled' = None
  /\ UNCHANGED << mounted, connVars, trackVars, cameraError, calVars, trackStopped,
                  scAccepted, recal, connHist >>
  /\ UNCHANGED nonGazeVars

\* getUserMedia resolves and videoRef.current.play() rejects: the stream is
\* in streamRef and in the video element when the catch branch runs
CameraPlayFails ==
  /\ mounted
  /\ pendingCamera > 0
  /\ streamRef => orphanStreams < MaxOrphanStreams
  /\ pendingCamera' = pendingCamera - 1
  /\ orphanStreams' = IF streamRef THEN orphanStreams + 1 ELSE orphanStreams
  /\ streamRef' = TRUE
  /\ videoSrc' = TRUE
  /\ cameraError' = "Failed to access camera"
  /\ isCameraActive' = FALSE
  /\ lastEvent' = "cameraPlayFails"
  /\ sentFrame' = FALSE
  /\ sentReset' = FALSE
  /\ settled' = None
  /\ UNCHANGED << mounted, connVars, trackVars, calVars, trackStopped, scAccepted,
                  recal, connHist >>
  /\ UNCHANGED nonGazeVars

\* getUserMedia rejects: the catch branch
CameraDenied ==
  /\ pendingCamera > 0
  /\ pendingCamera' = pendingCamera - 1
  /\ cameraError' = SetState("Failed to access camera", cameraError)
  /\ isCameraActive' = SetState(FALSE, isCameraActive)
  /\ lastEvent' = "cameraDenied"
  /\ sentFrame' = FALSE
  /\ sentReset' = FALSE
  /\ settled' = None
  /\ UNCHANGED << mounted, connVars, trackVars, streamRef, orphanStreams, videoSrc,
                  calVars, trackStopped, scAccepted, recal, connHist >>
  /\ UNCHANGED nonGazeVars

\* stopCamera()
StopCamera ==
  /\ mounted
  /\ streamRef' = FALSE
  /\ videoSrc' = FALSE
  /\ isCameraActive' = FALSE
  /\ lastEvent' = "stopCamera"
  /\ sentFrame' = FALSE
  /\ sentReset' = FALSE
  /\ settled' = None
  /\ UNCHANGED << mounted, connVars, trackVars, pendingCamera, orphanStreams,
                  cameraError, calVars, trackStopped, scAccepted, recal, connHist >>
  /\ UNCHANGED nonGazeVars

(* ------------------------------ tracking ------------------------------- *)

\* C15 mutant: startTracking() without its guard
StartTracking_NoGuard ==
  /\ mounted
  /\ lastEvent' = "startTracking"
  /\ sentFrame' = FALSE
  /\ sentReset' = FALSE
  /\ settled' = None
  /\ trackingIntervalRef => strayIntervals < MaxStrayIntervals
  /\ isTracking' = TRUE
  /\ strayIntervals' = IF trackingIntervalRef THEN strayIntervals + 1
                       ELSE strayIntervals
  /\ trackingIntervalRef' = TRUE
  /\ trackStopped' = FALSE
  /\ UNCHANGED gazeData
  /\ UNCHANGED << mounted, connVars, camVars, calVars, scAccepted, recal, connHist >>
  /\ UNCHANGED nonGazeVars

\* startTracking(): a no-op unless connected and camera active; else a new
\* interval, whose id overwrites the one in trackingIntervalRef
StartTracking ==
  /\ mounted
  /\ lastEvent' = "startTracking"
  /\ sentFrame' = FALSE
  /\ sentReset' = FALSE
  /\ settled' = None
  /\ IF ~isConnected \/ ~isCameraActive
     THEN UNCHANGED << trackVars, trackStopped >>
     ELSE /\ trackingIntervalRef => strayIntervals < MaxStrayIntervals
          /\ isTracking' = TRUE
          /\ strayIntervals' = IF trackingIntervalRef THEN strayIntervals + 1
                               ELSE strayIntervals
          /\ trackingIntervalRef' = TRUE
          /\ trackStopped' = FALSE
          /\ UNCHANGED gazeData
  /\ UNCHANGED << mounted, connVars, camVars, calVars, scAccepted, recal, connHist >>
  /\ UNCHANGED nonGazeVars

\* stopTracking()
StopTracking ==
  /\ mounted
  /\ trackingIntervalRef' = FALSE
  /\ isTracking' = FALSE
  /\ gazeData' = "null"
  /\ trackStopped' = TRUE
  /\ lastEvent' = "stopTracking"
  /\ sentFrame' = FALSE
  /\ sentReset' = FALSE
  /\ settled' = None
  /\ UNCHANGED << mounted, connVars, strayIntervals, camVars, calVars, scAccepted,
                  recal, connHist >>
  /\ UNCHANGED nonGazeVars

\* a running interval fires sendTrackingFrame: a 'track' frame is sent when
\* the socket in wsRef is open and captureFrame returns a frame
IntervalFires ==
  /\ trackingIntervalRef \/ strayIntervals > 0
  /\ \E ready \in BOOLEAN :
       sentFrame' = (WsOpen /\ CanCapture /\ ready)
  /\ sentReset' = FALSE
  /\ settled' = None
  /\ lastEvent' = "interval"
  /\ UNCHANGED << mounted, connVars, trackVars, camVars, calVars, trackStopped,
                  scAccepted, recal, connHist >>
  /\ UNCHANGED nonGazeVars

\* a gaze_data message arrives on an open socket
GazeDataMessage ==
  /\ mounted
  /\ \E ws \in SocketIds : sockets[ws] = "open"
  /\ \E g \in {"ok", "fail"} : gazeData' = g
  /\ lastEvent' = "gaze_data"
  /\ sentFrame' = FALSE
  /\ sentReset' = FALSE
  /\ settled' = None
  /\ UNCHANGED << mounted, connVars, isTracking, trackingIntervalRef, strayIntervals,
                  camVars, calVars, trackStopped, scAccepted, recal, connHist >>
  /\ UNCHANGED nonGazeVars

\* C14 mutant: the catch branch drops the current gaze sample
MalformedMessage_ClearsGaze ==
  /\ mounted
  /\ \E ws \in SocketIds : sockets[ws] = "open"
  /\ gazeData' = "null"
  /\ lastEvent' = "malformed"
  /\ sentFrame' = FALSE
  /\ sentReset' = FALSE
  /\ settled' = None
  /\ UNCHANGED << mounted, connVars, isTracking, trackingIntervalRef, strayIntervals,
                  camVars, calVars, trackStopped, scAccepted, recal, connHist >>
  /\ UNCHANGED nonGazeVars

\* a payload that JSON.parse rejects arrives on an open socket: handleMessage's
\* catch branch logs it
MalformedMessage ==
  /\ mounted
  /\ \E ws \in SocketIds : sockets[ws] = "open"
  /\ lastEvent' = "malformed"
  /\ sentFrame' = FALSE
  /\ sentReset' = FALSE
  /\ settled' = None
  /\ UNCHANGED << mounted, connVars, trackVars, camVars, calVars, trackStopped,
                  scAccepted, recal, connHist >>
  /\ UNCHANGED nonGazeVars

\* teardown: the hook's cleanup (disconnect(); stopCamera()) and the parent's
\* (stopTracking(); stopCamera(); disconnect())
Unmount ==
  /\ mounted
  /\ mounted' = FALSE
  /\ trackingIntervalRef' = FALSE
  /\ sockets' = disconnectSockets
  /\ wsRef' = 0
  /\ streamRef' = FALSE
  /\ videoSrc' = FALSE
  /\ trackStopped' = TRUE
  /\ lastEvent' = "unmount"
  /\ sentFrame' = FALSE
  /\ sentReset' = FALSE
  /\ settled' = None
  /\ UNCHANGED << isConnected, isConnecting, connectionError, isTracking, gazeData,
                  strayIntervals, pendingCamera, orphanStreams, isCameraActive,
                  cameraError, calVars, scAccepted, recal >>
  /\ disconnected' = TRUE
  /\ UNCHANGED dropped
  /\ UNCHANGED nonGazeVars

(* ----------------------------- calibration ----------------------------- *)

\* the messages the service can send as calibration_response
CalibrationResponses ==
  [success : BOOLEAN, samples_collected : 0..MaxReported, is_calibrated : BOOLEAN]

\* C4 mutant: the last point is taken for complete one point early
calibrationResponse_EarlyComplete(prev, data) ==
  IF ~data.success THEN prev
  ELSE
    LET s1 == [prev EXCEPT !.samplesCollected = data.samples_collected,
                           !.isCalibrated = data.is_calibrated]
    IN IF data.samples_collected >= samplesPerCalibrationPoint
       THEN LET nextIndex == s1.pointIndex + 1
            IN IF nextIndex >= Len(DEFAULT_CALIBRATION_POINTS) - 1
               THEN [s1 EXCEPT !.isCalibrating = FALSE, !.currentPoint = NullPoint,
                               !.isCalibrated = TRUE]
               ELSE [s1 EXCEPT !.pointIndex = nextIndex,
                               !.currentPoint = PointAt(nextIndex),
                               !.samplesCollected = 0]
       ELSE s1

\* C5 mutant: the quota test is > instead of >=
calibrationResponse_StrictQuota(prev, data) ==
  IF ~data.success THEN prev
  ELSE
    LET s1 == [prev EXCEPT !.samplesCollected = data.samples_collected,
                           !.isCalibrated = data.is_calibrated]
    IN IF data.samples_collected > samplesPerCalibrationPoint
       THEN LET nextIndex == s1.pointIndex + 1
            IN IF nextIndex >= Len(DEFAULT_CALIBRATION_POINTS)
               THEN [s1 EXCEPT !.isCalibrating = FALSE, !.currentPoint = NullPoint,
                               !.isCalibrated = TRUE]
               ELSE [s1 EXCEPT !.pointIndex = nextIndex,
                               !.currentPoint = PointAt(nextIndex),
                               !.samplesCollected = 0]
       ELSE s1

\* handleMessage case 'calibration_response': the two setCalibrationStatus
\* updaters applied to prev
calibrationResponse(prev, data) ==
  IF ~data.success THEN prev
  ELSE
    LET s1 == [prev EXCEPT !.samplesCollected = data.samples_collected,
                           !.isCalibrated = data.is_calibrated]
    IN IF data.samples_collected >= samplesPerCalibrationPoint
       THEN LET nextIndex == s1.pointIndex + 1
            IN IF nextIndex >= Len(DEFAULT_CALIBRATION_POINTS)
               THEN \* calibration complete
                    [s1 EXCEPT !.isCalibrating = FALSE, !.currentPoint = NullPoint,
                               !.isCalibrated = TRUE]
               ELSE \* move to next point
                    [s1 EXCEPT !.pointIndex = nextIndex,
                               !.currentPoint = PointAt(nextIndex),
                               !.samplesCollected = 0]
       ELSE s1

\* calibrationSamplesRef after a calibration_response
calibrationResponseRef(prev, data) ==
  IF ~data.success THEN calibrationSamplesRef
  ELSE IF /\ data.samples_collected >= samplesPerCalibrationPoint
          /\ prev.pointIndex + 1 < Len(DEFAULT_CALIBRATION_POINTS)
       THEN 0
       ELSE data.samples_collected

\* the status startCalibration() sets
startCalibrationStatus ==
  [isCalibrating |-> TRUE, currentPoint |-> PointAt(0), pointIndex |-> 0,
   totalPoints |-> Len(DEFAULT_CALIBRATION_POINTS), samplesCollected |-> 0,
   samplesPerPoint |-> samplesPerCalibrationPoint, isCalibrated |-> FALSE]

\* the setCalibrationStatus updater of cancelCalibration()
cancelCalibration(prev) ==
  [prev EXCEPT !.isCalibrating = FALSE, !.currentPoint = NullPoint]

\* the status resetCalibration() sets
resetCalibrationStatus ==
  [isCalibrating |-> FALSE, currentPoint |-> NullPoint, pointIndex |-> 0,
   totalPoints |-> Len(DEFAULT_CALIBRATION_POINTS), samplesCollected |-> 0,
   samplesPerPoint |-> samplesPerCalibrationPoint, isCalibrated |-> FALSE]

\* handleMessage case 'calibration_reset'
calibrationReset(prev) ==
  [prev EXCEPT !.isCalibrated = FALSE, !.samplesCollected = 0, !.pointIndex = 0]

IsComplete(st) == st.isCalibrated /\ ~st.isCalibrating /\ st.currentPoint = NullPoint

TotalSamples == Len(DEFAULT_CALIBRATION_POINTS) * samplesPerCalibrationPoint

\* startCalibration(): a no-op unless connected and camera active
StartCalibration ==
  /\ mounted
  /\ lastEvent' = "startCalibration"
  /\ sentFrame' = FALSE
  /\ sentReset' = FALSE
  /\ settled' = None
  /\ IF ~isConnected \/ ~isCameraActive
     THEN UNCHANGED << calVars, scAccepted, recal >>
     ELSE /\ calibrationSamplesRef' = 0
          /\ calibrationStatus' = startCalibrationStatus
          /\ scAccepted' = 0
          /\ recal' = IF recal \in {"completed", "recalibrating"} THEN "recalibrating"
                      ELSE "none"
  /\ UNCHANGED << mounted, connVars, trackVars, camVars, trackStopped, connHist >>
  /\ UNCHANGED nonGazeVars

\* cancelCalibration()
CancelCalibration ==
  /\ mounted
  /\ calibrationStatus' = cancelCalibration(calibrationStatus)
  /\ scAccepted' = NoTime
  /\ recal' = IF recal = "recalibrating" THEN "cancelled" ELSE recal
  /\ lastEvent' = "cancelCalibration"
  /\ sentFrame' = FALSE
  /\ sentReset' = FALSE
  /\ settled' = None
  /\ UNCHANGED << mounted, connVars, trackVars, camVars, calibrationSamplesRef,
                  trackStopped, connHist >>
  /\ UNCHANGED nonGazeVars

\* resetCalibration(): a no-op unless the socket in wsRef is open; else
\* {action: 'reset_calibration'} is sent and the status is reset
ResetCalibration ==
  /\ mounted
  /\ lastEvent' = IF WsOpen THEN "resetCalibration" ELSE "resetCalibration_noop"
  /\ sentFrame' = FALSE
  /\ sentReset' = WsOpen
  /\ settled' = None
  /\ IF ~WsOpen
     THEN UNCHANGED << calVars, scAccepted, recal >>
     ELSE /\ calibrationSamplesRef' = 0
          /\ calibrationStatus' = resetCalibrationStatus
          /\ scAccepted' = NoTime
          /\ recal' = "none"
  /\ UNCHANGED << mounted, connVars, trackVars, camVars, trackStopped, connHist >>
  /\ UNCHANGED nonGazeVars

\* a calibration_response message arrives on an open socket
CalibrationResponse ==
  /\ mounted
  /\ \E ws \in SocketIds : sockets[ws] = "open"
  /\ \E data \in CalibrationResponses :
       LET st == calibrationResponse(calibrationStatus, data)
           inOrder == /\ scAccepted # NoTime
                      /\ scAccepted < TotalSamples
                      /\ data.samples_collected =
                           (scAccepted % samplesPerCalibrationPoint) + 1
       IN /\ calibrationStatus' = st
          /\ calibrationSamplesRef' = calibrationResponseRef(calibrationStatus, data)
          /\ lastEvent' = IF ~data.success THEN "resp_fail"
                          ELSE IF data.samples_collected < samplesPerCalibrationPoint
                          THEN "resp_lt"
                          ELSE IF data.samples_collected = samplesPerCalibrationPoint
                          THEN "resp_eq"
                          ELSE "resp_gt"
          /\ scAccepted' = IF ~data.success THEN scAccepted
                           ELSE IF inOrder THEN scAccepted + 1
                           ELSE NoTime
          /\ recal' = IF ~data.success THEN recal
                      ELSE IF calibrationStatus.isCalibrating /\ IsComplete(st)
                      THEN "completed"
                      ELSE IF recal = "completed" /\ IsComplete(st) THEN "completed"
                      ELSE IF recal = "recalibrating" /\ st.isCalibrating
                      THEN "recalibrating"
                      ELSE "none"
  /\ sentFrame' = FALSE
  /\ sentReset' = FALSE
  /\ settled' = None
  /\ UNCHANGED << mounted, connVars, trackVars, camVars, trackStopped, connHist >>
  /\ UNCHANGED nonGazeVars

\* a calibration_reset message arrives on an open socket
CalibrationResetMessage ==
  /\ mounted
  /\ \E ws \in SocketIds : sockets[ws] = "open"
  /\ calibrationStatus' = calibrationReset(calibrationStatus)
  /\ calibrationSamplesRef' = 0
  /\ scAccepted' = NoTime
  /\ recal' = "none"
  /\ lastEvent' = "calibration_reset"
  /\ sentFrame' = FALSE
  /\ sentReset' = FALSE
  /\ settled' = None
  /\ UNCHANGED << mounted, connVars, trackVars, camVars, trackStopped, connHist >>
  /\ UNCHANGED nonGazeVars

\* the hook after its first render
GazeInit ==
  /\ mounted = TRUE
  /\ sockets = [ws \in SocketIds |-> "free"]
  /\ wsRef = 0
  /\ isConnected = FALSE
  /\ isConnecting = FALSE
  /\ connectionError = None
  /\ isTracking = FALSE
  /\ gazeData = "null"
  /\ trackingIntervalRef = FALSE
  /\ strayIntervals = 0
  /\ pendingCamera = 0
  /\ streamRef = FALSE
  /\ orphanStreams = 0
  /\ videoSrc = FALSE
  /\ isCameraActive = FALSE
  /\ cameraError = None
  /\ calibrationStatus = InitialCalibrationStatus
  /\ calibrationSamplesRef = 0
  /\ trackStopped = FALSE
  /\ sentFrame = FALSE
  /\ sentReset = FALSE
  /\ settled = None
  /\ lastEvent = "init"
  /\ scAccepted = NoTime
  /\ recal = "none"
  /\ dropped = FALSE
  /\ disconnected = FALSE

\* transport, camera and tracking loop
GazeNext ==
  \/ Connect
  \/ ConnectThrows
  \/ SocketOpen
  \/ SocketError
  \/ SocketClosing
  \/ SocketClose
  \/ Disconnect
  \/ StartCamera
  \/ CameraAcquired
  \/ CameraPlayFails
  \/ CameraDenied
  \/ StopCamera
  \/ StartTracking
  \/ StopTracking
  \/ IntervalFires
  \/ GazeDataMessage
  \/ MalformedMessage
  \/ Unmount

\* calibration over one connection and one camera session
CalibNext ==
  \/ (Connect /\ \A ws \in SocketIds : sockets[ws] = "free")
  \/ SocketOpen
  \/ SocketClose
  \/ StartCamera
  \/ CameraAcquired
  \/ StartCalibration
  \/ CancelCalibration
  \/ ResetCalibration
  \/ CalibrationResponse
  \/ CalibrationResetMessage
  \/ MalformedMessage

(***************************************************************************)
(* useFallDetectionStream: the video stream reconnector                    *)
(***************************************************************************)
baseDelay == 1000
maxDelay == 30000

MaxProbes == 2
MaxClock == 5000
ClockStep == baseDelay

ProbeIds == 1..MaxProbes

RECURSIVE Pow(_, _)
\* Math.pow(b, e) for a natural e
Pow(b, e) == IF e = 0 THEN 1 ELSE b * Pow(b, e - 1)

\* C8 mutant: the delay is not capped
getReconnectDelay_NoCap(attempt) == baseDelay * Pow(2, attempt)

\* getReconnectDelay
getReconnectDelay(attempt) == Min(baseDelay * Pow(2, attempt), maxDelay)

NoTimer == [pending |-> FALSE, due |-> 0, attempt |-> 0, setAt |-> 0]
NoProbe == [loading |-> FALSE, attempt |-> 0, manual |-> FALSE, handlers |-> FALSE]

\* a state setter of the hook called with v: a no-op once unmounted
SetStreamState(v, old) == IF streamMounted THEN v ELSE old

\* the slot a new Image() takes
FreeProbe(p) == /\ ~probes[p].loading
                /\ \A q \in ProbeIds : ~probes[q].loading => p <= q

\* C16 mutant: no retry is scheduled once two retries have run
scheduleReconnect_GiveUp(attempt) ==
  IF retries >= 2 THEN NoTimer
  ELSE [pending |-> TRUE, due |-> clock + getReconnectDelay(attempt),
        attempt |-> attempt, setAt |-> clock]

\* scheduleReconnect() of the render whose reconnectAttempt was `attempt`:
\* the pending timer is replaced by one due after getReconnectDelay(attempt)
scheduleReconnect(attempt) ==
  [pending |-> TRUE, due |-> clock + getReconnectDelay(attempt),
   attempt |-> attempt, setAt |-> clock]

\* the effect's cleanup: onload and onerror of imageRef.current set to null
cleanupProbes ==
  IF imageRef # 0 THEN [probes EXCEPT ![imageRef].handlers = FALSE] ELSE probes

\* the body of reconnect() of the current render, run on the probes ps
reconnectBody(ps) ==
  \E p \in ProbeIds :
    /\ ~ps[p].loading
    /\ \A q \in ProbeIds : ~ps[q].loading => p <= q
    /\ reconnectAttempt' = 0
    /\ streamError' = None
    /\ streamIsConnected' = FALSE
    /\ reconnectTimeoutRef' = NoTimer
    /\ probes' = [ps EXCEPT ![p] = [loading |-> TRUE, attempt |-> reconnectAttempt,
                                    manual |-> TRUE, handlers |-> TRUE]]
    /\ imageRef' = p

\* reconnect() called by the user
Reconnect ==
  /\ streamMounted
  /\ reconnectBody(probes)
  /\ autoOnly' = FALSE
  /\ streamEvent' = "reconnect"
  /\ UNCHANGED << streamMounted, clock, retries, lastGap >>
  /\ UNCHANGED nonVideoVars

\* patientId changes: the effect's cleanup, then reconnect()
PatientChange ==
  /\ streamMounted
  /\ reconnectBody(cleanupProbes)
  /\ autoOnly' = FALSE
  /\ streamEvent' = "patientChange"
  /\ UNCHANGED << streamMounted, clock, retries, lastGap >>
  /\ UNCHANGED nonVideoVars

\* a probe fails to load: img.onerror, unless it was set to null
ProbeFails ==
  /\ \E p \in ProbeIds :
       /\ probes[p].loading
       /\ probes' = [probes EXCEPT ![p] = NoProbe]
       /\ imageRef' = IF imageRef = p THEN 0 ELSE imageRef
       /\ IF probes[p].handlers
          THEN /\ streamIsConnected' = SetStreamState(FALSE, streamIsConnected)
               /\ streamError' = SetStreamState("Failed to connect to video stream",
                                                streamError)
               /\ reconnectTimeoutRef' = scheduleReconnect(probes[p].attempt)
          ELSE UNCHANGED << streamIsConnected, streamError, reconnectTimeoutRef >>
       /\ streamEvent' = IF ~probes[p].handlers THEN "fail_ignored"
                         ELSE IF probes[p].manual THEN "fail_manual"
                         ELSE "fail_auto"
  /\ UNCHANGED << streamMounted, reconnectAttempt, clock, autoOnly, retries, lastGap >>
  /\ UNCHANGED nonVideoVars

\* a probe loads: img.onload, unless it was set to null; only the probes of
\* scheduleReconnect reset the counter
ProbeLoads ==
  /\ \E p \in ProbeIds :
       /\ probes[p].loading
       /\ probes' = [probes EXCEPT ![p] = NoProbe]
       /\ imageRef' = IF imageRef = p THEN 0 ELSE imageRef
       /\ IF probes[p].handlers
          THEN /\ streamIsConnected' = SetStreamState(TRUE, streamIsConnected)
               /\ streamError' = SetStreamState(None, streamError)
               /\ reconnectAttempt' = IF probes[p].manual THEN reconnectAttempt
                                      ELSE SetStreamState(0, reconnectAttempt)
          ELSE UNCHANGED << streamIsConnected, streamError, reconnectAttempt >>
       /\ streamEvent' = IF ~probes[p].handlers THEN "load_ignored"
                         ELSE IF probes[p].manual THEN "load_manual"
                         ELSE "load_auto"
  /\ autoOnly' = FALSE
  /\ UNCHANGED << streamMounted, reconnectTimeoutRef, clock, retries, lastGap >>
  /\ UNCHANGED nonVideoVars

\* the retry timer fires: the counter is incremented and a probe is started
RetryTimerFires ==
  /\ reconnectTimeoutRef.pending
  /\ clock = reconnectTimeoutRef.due
  /\ \E p \in ProbeIds :
       /\ FreeProbe(p)
       /\ probes' = [probes EXCEPT ![p] = [loading |-> TRUE,
                                           attempt |-> reconnectTimeoutRef.attempt,
                                           manual |-> FALSE, handlers |-> TRUE]]
       /\ imageRef' = p
  /\ reconnectAttempt' = SetStreamState(reconnectAttempt + 1, reconnectAttempt)
  /\ streamError' = SetStreamState(None, streamError)
  /\ reconnectTimeoutRef' = NoTimer
  /\ retries' = retries + 1
  /\ streamEvent' = "retry"
  /\ lastGap' = clock - reconnectTimeoutRef.setAt
  /\ UNCHANGED << streamMounted, streamIsConnected, clock, autoOnly >>
  /\ UNCHANGED nonVideoVars

\* time passes; a due timer fires first
ClockTick ==
  /\ clock < MaxClock
  /\ ~(reconnectTimeoutRef.pending /\ reconnectTimeoutRef.due <= clock)
  /\ clock' = clock + ClockStep
  /\ streamEvent' = "tick"
  /\ UNCHANGED << streamMounted, streamIsConnected, streamError, reconnectAttempt,
                  reconnectTimeoutRef, probes, imageRef, autoOnly, retries, lastGap >>
  /\ UNCHANGED nonVideoVars

\* unmount: the effect's cleanup
StreamUnmount ==
  /\ streamMounted
  /\ streamMounted' = FALSE
  /\ reconnectTimeoutRef' = NoTimer
  /\ probes' = cleanupProbes
  /\ autoOnly' = FALSE
  /\ streamEvent' = "unmount"
  /\ UNCHANGED << streamIsConnected, streamError, reconnectAttempt, imageRef, clock,
                  retries, lastGap >>
  /\ UNCHANGED nonVideoVars

\* the hook after its mount effect ran reconnect() of the first render
VideoInit ==
  /\ streamMounted = TRUE
  /\ streamIsConnected = FALSE
  /\ streamError = None
  /\ reconnectAttempt = 0
  /\ reconnectTimeoutRef = NoTimer
  /\ probes = [p \in ProbeIds |->
                 IF p = 1 THEN [loading |-> TRUE, attempt |-> 0, manual |-> TRUE,
                                handlers |-> TRUE]
                 ELSE NoProbe]
  /\ imageRef = 1
  /\ clock = 0
  /\ autoOnly = TRUE
  /\ retries = 0
  /\ lastGap = 0
  /\ streamEvent = "init"

VideoNext ==
  \/ Reconnect
  \/ PatientChange
  \/ ProbeFails
  \/ ProbeLoads
  \/ RetryTimerFires
  \/ ClockTick
  \/ StreamUnmount

(***************************************************************************)
(* getReconnectDelay as a function of its argument                         *)
(***************************************************************************)
MaxAttempt == 16

\* getReconnectDelay(n) is called
CallGetReconnectDelay ==
  /\ \E n \in 0..MaxAttempt :
       /\ attemptArg' = n
       /\ delayOut' = getReconnectDelay(n)
  /\ prevArg' = attemptArg
  /\ prevOut' = delayOut
  /\ UNCHANGED nonDelayVars

DelayInitAt(n) ==
  /\ attemptArg = n
  /\ delayOut = getReconnectDelay(n)
  /\ prevArg = n
  /\ prevOut = getReconnectDelay(n)

DelayNext == CallGetReconnectDelay

(***************************************************************************)
(* Specifications                                                          *)
(***************************************************************************)
DwellInit ==
  /\ \E dt \in DwellTimes : DwellInitAt(dt)
  /\ GazeInit /\ VideoInit /\ DelayInitAt(0)
SpecDwell == DwellInit /\ [][DwellNext]_vars

Init == DwellInitAt(DEFAULT_DWELL_TIME) /\ GazeInit /\ VideoInit /\ DelayInitAt(0)
SpecGaze == Init /\ [][GazeNext]_vars
SpecCalib == Init /\ [][CalibNext]_vars
SpecVideo == Init /\ [][VideoNext]_vars

\* timers that are due fire, time passes, and a probe that does not load fails
VideoFairness ==
  /\ WF_vars(ClockTick)
  /\ WF_vars(RetryTimerFires)
  /\ WF_vars(ProbeFails)
SpecVideoLive == Init /\ [][VideoNext]_vars /\ VideoFairness

DelayInit ==
  /\ DwellInitAt(DEFAULT_DWELL_TIME) /\ GazeInit /\ VideoInit
  /\ \E n \in 0..MaxAttempt : DelayInitAt(n)
SpecDelay == DelayInit /\ [][DelayNext]_vars

(***************************************************************************)
(* Claims about the dwell selection                                        *)
(***************************************************************************)
Holding == holdSince # NoTime

\* C1: a gaze held on one key fires exactly one selection when it has been
\* held for dwellTime, however many samples and animation frames are
\* processed: no second selection before 2*dwellTime + cooldown, and a
\* selection as soon as a frame runs at or after dwellTime.
C1_DwellFiresOnce ==
  /\ (Holding /\ now - holdSince < 2 * dwellTime + DwellCooldown) => holdSel <= 1
  /\ holdFrameFull => holdSel >= 1
  /\ fired => (holdSel >= 1 /\ dwellProgress = 0)

C1_Witness ==
  /\ Holding
  /\ holdSel = 1
  /\ now - holdSince > dwellTime
  /\ now - holdSince < 2 * dwellTime + DwellCooldown
  /\ framesAfterSel = MaxFramesAfterSel
  /\ rafCallbacks # {}

C3_DwellResetOnTargetChange ==
  /\ keyChanged =>
       /\ dwellProgress = 0
       /\ dwellStartTimeRef = (IF histKey = None THEN NoTime ELSE now)
  /\ fired => firedHeld >= dwellTime

C3_Witness ==
  /\ keyChanged
  /\ histKey # None
  /\ prevHeld > 0
  /\ prevHeld < dwellTime
  /\ dwellProgress = 0

(***************************************************************************)
(* Calibration: C4 - C6 (SpecCalib)                                        *)
(***************************************************************************)

\* C4: from startCalibration(), while the service reports 1..N accepted
\* samples for each grid point in order, the status is calibrating at point
\* (accepted div N) with (accepted mod N) samples, the points being visited
\* in index order; it is complete (isCalibrated, not isCalibrating,
\* currentPoint null) exactly when all 9 * N samples are accepted, not before.
C4_FullCalibrationScenario ==
  scAccepted # NoTime =>
    IF scAccepted = TotalSamples
    THEN IsComplete(calibrationStatus)
    ELSE /\ calibrationStatus.isCalibrating
         /\ calibrationStatus.pointIndex = scAccepted \div samplesPerCalibrationPoint
         /\ calibrationStatus.currentPoint = PointAt(calibrationStatus.pointIndex)
         /\ calibrationStatus.samplesCollected = scAccepted % samplesPerCalibrationPoint

C4_Witness ==
  /\ scAccepted = TotalSamples
  /\ lastEvent = "resp_eq"
  /\ calibrationStatus.pointIndex = Len(DEFAULT_CALIBRATION_POINTS) - 1
  /\ IsComplete(calibrationStatus)

\* C5: while calibrating at point i, a successful calibration_response
\* reporting fewer than N samples leaves pointIndex unchanged; the one
\* reporting N samples advances pointIndex by exactly 1 and resets
\* samplesCollected to 0, or, at the last index, completes the calibration
\* instead of advancing.
C5_PointAdvancement ==
  [][ calibrationStatus.isCalibrating =>
        /\ lastEvent' = "resp_lt" =>
             /\ calibrationStatus'.pointIndex = calibrationStatus.pointIndex
             /\ calibrationStatus'.isCalibrating
             /\ calibrationStatus'.currentPoint = calibrationStatus.currentPoint
        /\ lastEvent' = "resp_eq" =>
             IF calibrationStatus.pointIndex = Len(DEFAULT_CALIBRATION_POINTS) - 1
             THEN /\ IsComplete(calibrationStatus')
                  /\ calibrationStatus'.pointIndex = calibrationStatus.pointIndex
             ELSE /\ calibrationStatus'.pointIndex = calibrationStatus.pointIndex + 1
                  /\ calibrationStatus'.samplesCollected = 0
                  /\ calibrationStatus'.isCalibrating
                  /\ calibrationStatus'.currentPoint =
                       PointAt(calibrationStatus.pointIndex + 1) ]_vars

C5_Witness ==
  /\ lastEvent = "resp_eq"
  /\ calibrationStatus.isCalibrating
  /\ calibrationStatus.pointIndex = 3
  /\ calibrationStatus.samplesCollected = 0
  /\ calibrationStatus.currentPoint = PointAt(3)

\* C6: after a completed calibration, a recalibration attempt that is
\* started and then cancelled leaves isCalibrated true, whereas
\* resetCalibration(), when it reaches the service, leaves isCalibrated false.
C6_CancelVsReset ==
  /\ recal = "cancelled" => calibrationStatus.isCalibrated
  /\ lastEvent = "resetCalibration" => ~calibrationStatus.isCalibrated

(***************************************************************************)
(* Tracking loop and transport: C9, C10 (SpecGaze)                         *)
(***************************************************************************)

\* C9: after stopTracking(), disconnect() or teardown, no 'track' frame is
\* sent until startTracking() is next called with its preconditions met.
C9_NoFramesAfterStop == trackStopped => ~sentFrame

\* C10: isConnected and isConnecting are never both true.
C10_ConnectionStateExclusive == ~(isConnected /\ isConnecting)

(***************************************************************************)
(* Video stream reconnector: C7 (SpecVideo), C8 (SpecDelay)                *)
(***************************************************************************)

\* C7: while every probe has failed since mount and only retries ran, the
\* gap between the k-th failure and the probe after it is delay(k) (1000,
\* 2000, 4000, ... ms), and the attempt counter counts the retries.
C7_BackoffTiming ==
  (autoOnly /\ retries >= 1) =>
    /\ lastGap = Min(baseDelay * 2 ^ (retries - 1), maxDelay)
    /\ reconnectAttempt = retries

\* C8: getReconnectDelay(n) = min(1000 * 2^n, 30000): delay(0..5) = 1000,
\* 2000, 4000, 8000, 16000, 30000; it is non-decreasing in n, within
\* 1000..30000, and a function of n alone.
C8_ReconnectDelayPolicy ==
  /\ delayOut = (IF 1000 * 2 ^ attemptArg <= 30000 THEN 1000 * 2 ^ attemptArg
                 ELSE 30000)
  /\ attemptArg <= 5 =>
       delayOut = << 1000, 2000, 4000, 8000, 16000, 30000 >>[attemptArg + 1]
  /\ prevArg <= attemptArg => prevOut <= delayOut
  /\ prevArg = attemptArg => prevOut = delayOut
  /\ 1000 <= delayOut /\ delayOut <= 30000

C8_Witness ==
  /\ prevArg = 4 /\ prevOut = 16000
  /\ attemptArg = 5 /\ delayOut = 30000

(***************************************************************************)
(* Calibration invariants and reset: C11 - C13 (SpecCalib)                 *)
(***************************************************************************)

\* C11: samplesCollected never exceeds samplesPerPoint.
C11_SampleCountBound ==
  calibrationStatus.samplesCollected <= calibrationStatus.samplesPerPoint

\* C12: while calibrating, pointIndex is in 0..8 and currentPoint is the grid
\* point at pointIndex; while not calibrating, currentPoint is null.
C12_PointInvariant ==
  IF calibrationStatus.isCalibrating
  THEN /\ calibrationStatus.pointIndex \in 0..(Len(DEFAULT_CALIBRATION_POINTS) - 1)
       /\ calibrationStatus.currentPoint = PointAt(calibrationStatus.pointIndex)
  ELSE calibrationStatus.currentPoint = NullPoint

\* C13: every call of resetCalibration() leaves isCalibrated false,
\* samplesCollected 0 and pointIndex 0, and sends reset_calibration to the
\* service in the same step.
C13_ResetClearsBoth ==
  lastEvent \in {"resetCalibration", "resetCalibration_noop"} =>
    /\ ~calibrationStatus.isCalibrated
    /\ calibrationStatus.samplesCollected = 0
    /\ calibrationStatus.pointIndex = 0
    /\ sentReset

(***************************************************************************)
(* Dispatcher and preconditions: C14, C15 (SpecGaze)                       *)
(***************************************************************************)

\* C14: a payload that cannot be parsed changes no state of the gaze client:
\* the sockets, the connection state, the tracking loop, the camera and the
\* calibration status are what they were, so later messages act on the same
\* state.
C14_MalformedMessageIgnored ==
  [][ lastEvent' = "malformed" =>
        UNCHANGED << mounted, connVars, trackVars, camVars, calVars, trackStopped >>
    ]_vars

C14_Witness ==
  /\ lastEvent = "malformed"
  /\ gazeData = "ok"
  /\ isTracking
  /\ WsOpen

\* C15: startTracking() while not connected or without an active camera
\* changes nothing: no interval is started and isTracking is what it was.
C15_StartTrackingNoOp ==
  [][ (lastEvent' = "startTracking" /\ (~isConnected \/ ~isCameraActive)) =>
        UNCHANGED << mounted, connVars, trackVars, camVars, calVars, trackStopped >>
    ]_vars

C15_Witness ==
  /\ lastEvent = "startTracking"
  /\ isConnected /\ ~isCameraActive
  /\ ~isTracking /\ ~trackingIntervalRef /\ strayIntervals = 0

(***************************************************************************)
(* Video stream reconnector: C16 (SpecVideoLive), C17 - C19 (SpecVideo)    *)
(***************************************************************************)

\* a retry timer set while mounted that falls due within the horizon
RetryDue ==
  /\ streamMounted
  /\ reconnectTimeoutRef.pending
  /\ reconnectTimeoutRef.due <= MaxClock

\* a probe was started, or the hook was unmounted, or the pending timer was
\* replaced by one beyond the horizon
ProbeStarted ==
  \/ streamEvent \in {"retry", "reconnect", "patientChange"}
  \/ ~streamMounted
  \/ (reconnectTimeoutRef.pending /\ reconnectTimeoutRef.due > MaxClock)

\* C16: while mounted, every failed probe load (of reconnect() or of a retry)
\* schedules a retry, however many retries ran before, and a retry that is
\* scheduled leads to a new probe being started.
C16_NeverGivesUp ==
  /\ [](streamMounted /\ streamEvent \in {"fail_manual", "fail_auto"}
          => reconnectTimeoutRef.pending)
  /\ (RetryDue ~> ProbeStarted)

C16_Witness ==
  /\ streamMounted /\ autoOnly
  /\ streamEvent = "retry"
  /\ retries = 3

\* C17: reconnect() cancels the pending timer, sets the counter to 0, clears
\* the error and starts a probe at once; when that probe fails, the retry is
\* scheduled delay(0) = 1000 ms later.
C17_ManualReconnect ==
  /\ streamEvent = "reconnect" =>
       /\ ~reconnectTimeoutRef.pending
       /\ reconnectAttempt = 0
       /\ streamError = None
       /\ imageRef # 0 /\ probes[imageRef].loading /\ probes[imageRef].manual
  /\ (streamMounted /\ streamEvent = "fail_manual") =>
       /\ reconnectTimeoutRef.pending
       /\ reconnectTimeoutRef.due - reconnectTimeoutRef.setAt = baseDelay

\* C18: when a probe load succeeds, isConnected is true, error is null and
\* the attempt counter is 0.
C18_SuccessResetsBackoff ==
  (streamMounted /\ streamEvent \in {"load_manual", "load_auto"}) =>
    /\ streamIsConnected
    /\ streamError = None
    /\ reconnectAttempt = 0

\* C19: after unmount no retry timer fires, no probe load is started and
\* isConnected, error and the attempt counter do not change.
C19_QuietAfterUnmount ==
  [][ ~streamMounted =>
        /\ retries' = retries
        /\ \A p \in ProbeIds : probes'[p].loading => probes[p].loading
        /\ UNCHANGED << streamIsConnected, streamError, reconnectAttempt >>
    ]_vars

(***************************************************************************)
(* Transport errors: C20 (SpecGaze)                                        *)
(***************************************************************************)

\* C20: when a socket errors before it opened, afterwards isConnected and
\* isConnecting are false, connectionError is set, the promise of its
\* connect() call is rejected, and no new socket is created.
C20_ErrorBeforeOpen ==
  [][ (/\ mounted
       /\ lastEvent' = "error"
       /\ \E ws \in SocketIds :
            sockets[ws] = "connecting" /\ sockets'[ws] # "connecting") =>
        /\ ~isConnected'
        /\ ~isConnecting'
        /\ connectionError' # None
        /\ settled' = "rejected"
        /\ \A o \in SocketIds : sockets'[o] = "connecting" => sockets[o] = "connecting"
    ]_vars

C20_Witness ==
  /\ mounted
  /\ lastEvent = "error"
  /\ settled = "rejected"
  /\ ~isConnected /\ ~isConnecting
  /\ connectionError = "Failed to connect to gaze tracking server"

\* ---------------------------------------------------------------------------
\* C30: in every reachable state of the on-screen keyboard the displayed dwell
\* progress lies between 0 and 100, the cooldown after a selection included
C30_ProgressInBounds ==
  0 <= dwellProgress /\ dwellProgress <= 100

\* ---------------------------------------------------------------------------
\* C26: after a dwell selection at time t the next dwell selection, on the
\* same key or on another one, does not fire before t + cooldown + dwellTime
C26_CooldownAnyKey ==
  [][ (fired' /\ lastSelTime # NoTime)
        => now' - lastSelTime >= DwellCooldown + dwellTime ]_vars

(***************************************************************************)
(* Transport, camera and calibration: C21 - C29                            *)
(***************************************************************************)

\* C21: the gaze transport never reconnects by itself: a socket is created
\* only in a connect() step, and once a connection that had opened has
\* closed or failed the client stays disconnected until connect() is called
C21_NoAutoReconnect ==
  /\ []((mounted /\ dropped) => ~isConnected)
  /\ [][ (\E ws \in SocketIds :
            sockets[ws] # "connecting" /\ sockets'[ws] = "connecting")
           => lastEvent' = "connect" ]_vars

\* C22: after disconnect() no send loop runs, no socket is open,
\* isConnected and isTracking are false; a second call, or a call made while
\* disconnected, changes no state
C22_DisconnectIdempotent ==
  /\ [](lastEvent = "disconnect" =>
          /\ ~trackingIntervalRef
          /\ strayIntervals = 0
          /\ \A ws \in SocketIds : sockets[ws] # "open"
          /\ ~isConnected
          /\ ~isTracking)
  /\ [][ (lastEvent' = "disconnect" /\ (lastEvent = "disconnect" \/ ~isConnected))
           => UNCHANGED << connVars, isTracking, gazeData, strayIntervals,
                           camVars, calVars >> ]_vars

\* acquired camera streams whose tracks have not been stopped
StreamsHeld == (IF streamRef THEN 1 ELSE 0) + orphanStreams

\* C23: every acquired stream is released on every exit path: no stream is
\* held after stopCamera(), after teardown, or while isCameraActive is false
C23_StreamsReleased ==
  /\ lastEvent = "stopCamera" => StreamsHeld = 0
  /\ ~mounted => StreamsHeld = 0
  /\ (mounted /\ ~isCameraActive) => StreamsHeld = 0

\* C24: at most one acquired stream has tracks that have not been stopped
C24_SingleCaptureSession ==
  StreamsHeld <= 1

\* C25: a successful calibration_response with is_calibrated = true, received
\* while calibrating at a point that is not the last one, completes the
\* calibration in that step
C25_MidSequenceComplete ==
  [][ ( /\ calibrationStatus.isCalibrating
        /\ calibrationStatus.pointIndex < Len(DEFAULT_CALIBRATION_POINTS) - 1
        /\ lastEvent' \in {"resp_lt", "resp_eq", "resp_gt"}
        /\ calibrationStatus'.isCalibrated )
        => IsComplete(calibrationStatus') ]_vars

\* C27: at most one gaze socket is open or being opened, and connect()
\* called while connected changes no state
C27_SingleConnection ==
  /\ [](Cardinality({ws \in SocketIds : sockets[ws] \in {"connecting", "open"}}) <= 1)
  /\ [][ (mounted /\ isConnected /\ lastEvent' = "connect")
           => UNCHANGED << connVars, trackVars, camVars, calVars >> ]_vars

\* C28: a 'track' frame is sent only while isTracking is true (stated for
\* the states in which every running interval is the one in
\* trackingIntervalRef)
C28_FramesOnlyWhileTracking ==
  (sentFrame /\ strayIntervals = 0) => isTracking

\* C29: from disconnect() until the next connect() isConnected is false and
\* no socket is open, whether or not a connect() was pending at the call
C29_DisconnectedUntilConnect ==
  disconnected =>
    /\ ~(mounted /\ isConnected)
    /\ \A ws \in SocketIds : sockets[ws] # "open"

====
